---- MODULE Spec2Model ----
(***************************************************************************)
(* A model of ml_utils/utils.py: the recursive fitted-status auditor       *)
(* audit_deep and the deserialisation wrapper load_model.                  *)
(*                                                                         *)
(* Text is modelled as sequences of one-character strings, so that what    *)
(* print() writes can be inspected character by character.  The character  *)
(* U+2713 (the check mark) is written "U+2713".                            *)
(***************************************************************************)
EXTENDS Integers, Sequences, FiniteSets, TLC

\* ------------------------------------------------------------------ bounds
\* Number of estimator objects in a component graph.
NumNodes == 3
\* Largest indent a caller passes to the top-level audit_deep call.
MaxIndent == 1

\* ------------------------------------------------------------------ text
RootName == <<"r", "o", "o", "t">>
NameA == <<"a">>
NameB == <<"b">>
Remainder == <<"r", "e", "m", "a", "i", "n", "d", "e", "r">>
\* Names external code gives to pipeline steps and to resolved transformers.
Names == {NameA, NameB, Remainder}

\* "  " * indent
RECURSIVE Space(_)
Space(indent) == IF indent <= 0 THEN <<>> ELSE <<" ", " ">> \o Space(indent - 1)

\* Mutant of FittedLine: the failure marker on the success line.
FittedLineCross(space, name) ==
    space \o <<"[", "X", "]", " ">> \o name
          \o <<" ", "i", "s", " ", "f", "i", "t", "t", "e", "d", ".">>

\* f"{space}[U+2713] {name} is fitted."
FittedLine(space, name) ==
    space \o <<"[", "U+2713", "]", " ">> \o name
          \o <<" ", "i", "s", " ", "f", "i", "t", "t", "e", "d", ".">>

\* f"{space}[X] {name} IS NOT FITTED!"
NotFittedLine(space, name) ==
    space \o <<"[", "X", "]", " ">> \o name
          \o <<" ", "I", "S", " ", "N", "O", "T", " ",
               "F", "I", "T", "T", "E", "D", "!">>

\* f"Step: {step_name}"
StepLabel(step_name) == <<"S", "t", "e", "p", ":", " ">> \o step_name

\* f"Transformer: {trans_name}"
TransformerLabel(trans_name) ==
    <<"T", "r", "a", "n", "s", "f", "o", "r", "m", "e", "r", ":", " ">>
        \o trans_name

\* ------------------------------------------------------------------ state
VARIABLES
    graph,      \* the component graph: estimator id -> its attributes
    stack,      \* the activation records of audit_deep, outermost first
    out,        \* the lines printed by the current (or last) top-level call
    status,     \* "idle" | "running" | "raising" | "returned" | "raised"
    result,     \* what the last top-level call gave its caller
    args,       \* the arguments of the current (or last) top-level call
    prev,       \* the previous completed top-level call, or NoCall
    files,      \* the file system: path -> what joblib.load finds there
    load,       \* the activation of load_model and what it gave its caller
    console     \* what load_model has printed

auditVars == <<graph, stack, out, status, result, args, prev>>
loadVars == <<files, load, console>>
vars == <<graph, stack, out, status, result, args, prev, files, load, console>>

Estimators == 1 .. NumNodes
Root == 1
Indents == 0 .. MaxIndent

\* What isinstance() distinguishes.
Kinds == {"Estimator", "Pipeline", "ColumnTransformer"}
\* What check_is_fitted(estimator) does: returns, raises NotFittedError, or
\* raises something else (for instance TypeError for the string "drop").
Checks == {"fitted", "NotFittedError", "OtherError"}

NoCall == [done |-> FALSE]
NoArgs == [name |-> <<>>, indent |-> 0]

\* ---------------------------------------------------------- file system
Paths == {"models/a.joblib", "models/b.joblib"}
\* The objects external code has serialised.
Objects == {"model_1", "model_2"}
\* What a path holds: nothing, a serialised object, bytes that do not
\* deserialise, or a pickle whose reconstruction ends the interpreter.
Contents == {"absent", "corrupt", "exits"} \cup Objects
NotLoading == [pc |-> "idle"]

\* ------------------------------------------------------- component graphs
\* External code builds the graph before audit_deep sees it.  A graph of n
\* estimators is drawn as a rooted acyclic graph: estimator c > 1 is
\* registered under the name nm[c] in estimator parent[c] < c and, when
\* also[c] # 0, in a second estimator also[c] < parent[c] as well (the same
\* object used in two places); the items of a composite are declared in
\* increasing order of their ids.
RECURSIVE ChildrenFrom(_, _, _, _, _)
ChildrenFrom(parent, also, e, c, n) ==
    IF c > n THEN <<>>
    ELSE (IF parent[c] = e \/ also[c] = e THEN <<c>> ELSE <<>>)
             \o ChildrenFrom(parent, also, e, c + 1, n)

\* The columns selector of a resolved transformer entry (never read).
Columns == <<>>

Entries2(cs, nm) == [k \in 1 .. Len(cs) |-> <<nm[cs[k]], cs[k]>>]
Entries3(cs, nm) == [k \in 1 .. Len(cs) |-> <<nm[cs[k]], cs[k], Columns>>]

\* Pipeline.named_steps is a mapping: its keys are pairwise different.
DistinctNames(cs, nm) ==
    \A j, k \in 1 .. Len(cs) : j # k => nm[cs[j]] # nm[cs[k]]

BuildGraph(n, parent, also, nm, kind, check, has) ==
    [e \in 1 .. n |->
        LET cs == ChildrenFrom(parent, also, e, e + 1, n) IN
        [kind |-> kind[e],
         check |-> check[e],
         named_steps |-> IF kind[e] = "Pipeline" THEN Entries2(cs, nm) ELSE <<>>,
         transformers |->
             IF kind[e] = "ColumnTransformer" THEN Entries3(cs, nm) ELSE <<>>,
         has_transformers_ |-> has[e],
         transformers_ |->
             IF kind[e] = "ColumnTransformer" /\ has[e]
             THEN Entries3(cs, nm) ELSE <<>>]]

\* Only a Pipeline or a ColumnTransformer holds other estimators.
Registered(n, kind, parent) ==
    \A c \in 2 .. n : parent[c] < c /\ kind[parent[c]] # "Estimator"

SharedIn(n, kind, parent, also) ==
    \A c \in 2 .. n :
        also[c] # 0 => also[c] < parent[c] /\ kind[also[c]] # "Estimator"

StepNamesDistinct(n, kind, parent, also, nm) ==
    \A e \in 1 .. n :
        kind[e] = "Pipeline" =>
            DistinctNames(ChildrenFrom(parent, also, e, e + 1, n), nm)

\* transformers_ is an attribute of fitted ColumnTransformers only.
OnlyColumnTransformers(n, kind, has) ==
    \A e \in 1 .. n : has[e] => kind[e] = "ColumnTransformer"

Init ==
    /\ \E n \in Estimators :
       \E kind \in [1 .. n -> Kinds] :
       \E parent \in {f \in [2 .. n -> 1 .. n] : Registered(n, kind, f)} :
       \E also \in {f \in [2 .. n -> 0 .. n] : SharedIn(n, kind, parent, f)} :
       \E nm \in {f \in [2 .. n -> Names] :
                     StepNamesDistinct(n, kind, parent, also, f)} :
       \E has \in {f \in [1 .. n -> BOOLEAN] :
                      OnlyColumnTransformers(n, kind, f)} :
       \E check \in [1 .. n -> Checks] :
          graph = BuildGraph(n, parent, also, nm, kind, check, has)
    /\ stack = <<>>
    /\ out = <<>>
    /\ status = "idle"
    /\ result = "none yet"
    /\ args = NoArgs
    /\ prev = NoCall
    /\ files = [p \in Paths |-> "absent"]
    /\ load = NotLoading
    /\ console = <<>>

\* ------------------------------------------------------------ audit_deep
Top == stack[Len(stack)]

Frame(estimator, name, indent) ==
    [estimator |-> estimator, name |-> name, indent |-> indent,
     pc |-> "check", i |-> 1,
     base |-> Len(out),     \* lines printed before this call began
     line |-> 0]            \* index in out of this call's own status line

\* A caller invokes audit_deep(estimator, name, indent) on the graph's root.
Call ==
    /\ status \in {"idle", "returned", "raised"}
    /\ \E indent \in Indents :
          /\ args' = [name |-> RootName, indent |-> indent]
          /\ stack' = <<[Frame(Root, RootName, indent) EXCEPT !.base = 0]>>
    /\ out' = <<>>
    /\ status' = "running"
    /\ result' = "none yet"
    /\ prev' = IF status = "idle" THEN prev
               ELSE [done |-> TRUE, args |-> args, out |-> out,
                     status |-> status, result |-> result]
    /\ graph' = graph
    /\ UNCHANGED loadVars

\* Mutant of Caught: a bare except clause.
CaughtAny(exc) == TRUE

\* except NotFittedError
Caught(exc) == exc = "NotFittedError"

AtCheck == status = "running" /\ stack # <<>> /\ Top.pc = "check"

Printed(text) ==
    /\ out' = Append(out, text)
    /\ stack' = [stack EXCEPT ![Len(stack)] =
                    [@ EXCEPT !.pc = "children", !.line = Len(out) + 1]]

CheckFitted ==
    /\ AtCheck
    /\ graph[Top.estimator].check = "fitted"
    /\ Printed(FittedLine(Space(Top.indent), Top.name))
    /\ graph' = graph
    /\ UNCHANGED loadVars
    /\ UNCHANGED <<status, result, args, prev>>

\* Mutant of CheckNotFitted: the check fits the estimator it finds unfitted.
CheckNotFittedFits ==
    /\ AtCheck
    /\ graph[Top.estimator].check # "fitted"
    /\ Caught(graph[Top.estimator].check)
    /\ Printed(NotFittedLine(Space(Top.indent), Top.name))
    /\ graph' = [graph EXCEPT ![Top.estimator].check = "fitted"]
    /\ UNCHANGED loadVars
    /\ UNCHANGED <<status, result, args, prev>>

CheckNotFitted ==
    /\ AtCheck
    /\ graph[Top.estimator].check # "fitted"
    /\ Caught(graph[Top.estimator].check)
    /\ Printed(NotFittedLine(Space(Top.indent), Top.name))
    /\ graph' = graph
    /\ UNCHANGED loadVars
    /\ UNCHANGED <<status, result, args, prev>>

\* Any other exception of check_is_fitted leaves the try statement uncaught.
CheckRaises ==
    /\ AtCheck
    /\ graph[Top.estimator].check # "fitted"
    /\ ~Caught(graph[Top.estimator].check)
    /\ status' = "raising"
    /\ graph' = graph
    /\ UNCHANGED loadVars
    /\ UNCHANGED <<stack, out, result, args, prev>>

\* The exception leaves one activation of audit_deep; no frame handles it.
Propagate ==
    /\ status = "raising"
    /\ stack # <<>>
    /\ stack' = SubSeq(stack, 1, Len(stack) - 1)
    /\ status' = IF Len(stack) = 1 THEN "raised" ELSE "raising"
    /\ result' = IF Len(stack) = 1 THEN "exception" ELSE result
    /\ graph' = graph
    /\ UNCHANGED loadVars
    /\ UNCHANGED <<out, args, prev>>

AtChildren == status = "running" /\ stack # <<>> /\ Top.pc = "children"

IsPipeline(e) == graph[e].kind = "Pipeline"
IsColumnTransformer(e) == graph[e].kind = "ColumnTransformer"
\* hasattr(estimator, "transformers_")
HasTransformers(e) == graph[e].has_transformers_
\* Mutant of TransformerList: the declared list, estimator.transformers.
TransformerListDeclared(e) == graph[e].transformers

\* what the loop over estimator.transformers_ walks: nothing when the
\* attribute is missing
TransformerList(e) ==
    IF HasTransformers(e) THEN graph[e].transformers_ ELSE <<>>
\* Mutant of IsRemainder: the remainder entry is not skipped.
IsRemainderNever(trans_name) == FALSE

\* if trans_name == "remainder": continue
IsRemainder(trans_name) == trans_name = Remainder
\* Mutant of ChildIndent: the nested call keeps its parent's indent.
ChildIndentSame(indent) == indent

\* indent + 1
ChildIndent(indent) == indent + 1
\* Mutant of StepItem: the steps are walked in reverse.
StepItemReversed(e, k) ==
    graph[e].named_steps[Len(graph[e].named_steps) - k + 1]

\* the k-th item of estimator.named_steps.items()
StepItem(e, k) == graph[e].named_steps[k]

Recurse(estimator, name) ==
    stack' = Append([stack EXCEPT ![Len(stack)] = [@ EXCEPT !.i = @ + 1]],
                    Frame(estimator, name, ChildIndent(Top.indent)))

PipelineStep ==
    /\ AtChildren
    /\ IsPipeline(Top.estimator)
    /\ Top.i <= Len(graph[Top.estimator].named_steps)
    /\ LET item == StepItem(Top.estimator, Top.i)
       IN Recurse(item[2], StepLabel(item[1]))
    /\ graph' = graph
    /\ UNCHANGED loadVars
    /\ UNCHANGED <<out, status, result, args, prev>>

AtTransformer ==
    /\ AtChildren
    /\ ~IsPipeline(Top.estimator)
    /\ IsColumnTransformer(Top.estimator)
    /\ Top.i <= Len(TransformerList(Top.estimator))

SkipRemainder ==
    /\ AtTransformer
    /\ IsRemainder(TransformerList(Top.estimator)[Top.i][1])
    /\ stack' = [stack EXCEPT ![Len(stack)] = [@ EXCEPT !.i = @ + 1]]
    /\ graph' = graph
    /\ UNCHANGED loadVars
    /\ UNCHANGED <<out, status, result, args, prev>>

TransformerStep ==
    /\ AtTransformer
    /\ LET item == TransformerList(Top.estimator)[Top.i]
       IN /\ ~IsRemainder(item[1])
          /\ Recurse(item[2], TransformerLabel(item[1]))
    /\ graph' = graph
    /\ UNCHANGED loadVars
    /\ UNCHANGED <<out, status, result, args, prev>>

\* Nothing (more) to recurse into: the call falls off the end of the function.
LoopDone ==
    IF IsPipeline(Top.estimator)
    THEN Top.i > Len(graph[Top.estimator].named_steps)
    ELSE IF IsColumnTransformer(Top.estimator)
         THEN Top.i > Len(TransformerList(Top.estimator))
         ELSE TRUE

Return ==
    /\ AtChildren
    /\ LoopDone
    /\ stack' = SubSeq(stack, 1, Len(stack) - 1)
    /\ status' = IF Len(stack) = 1 THEN "returned" ELSE status
    /\ result' = IF Len(stack) = 1 THEN "None" ELSE result
    /\ graph' = graph
    /\ UNCHANGED loadVars
    /\ UNCHANGED <<out, args, prev>>

Step ==
    \/ CheckFitted
    \/ CheckNotFitted
    \/ CheckRaises
    \/ Propagate
    \/ PipelineStep
    \/ SkipRemainder
    \/ TransformerStep
    \/ Return

Next ==
    \/ Call
    \/ Step

Spec == Init /\ [][Next]_vars

\* The interpreter runs a started call to its end.
FairSpec == Spec /\ WF_vars(Step)

\* ------------------------------------------------------------ load_model
\* Python's exception classes, each with its base class.
Base(cls) ==
    CASE cls = "FileNotFoundError" -> "OSError"
      [] cls = "OSError" -> "Exception"
      [] cls = "UnpicklingError" -> "Exception"
      [] cls = "Exception" -> "BaseException"
      [] cls = "SystemExit" -> "BaseException"
      [] cls = "KeyboardInterrupt" -> "BaseException"
      [] OTHER -> "object"

RECURSIVE IsInstance(_, _)
IsInstance(cls, handler) ==
    \/ cls = handler
    \/ cls \notin {"BaseException", "object"} /\ IsInstance(Base(cls), handler)

\* joblib.load(filepath): the exception classes it can raise for what the
\* path holds (none when it returns).  The user can interrupt any load.
JoblibRaises(content) ==
    CASE content = "absent" -> {"FileNotFoundError"}
      [] content = "corrupt" -> {"UnpicklingError", "KeyboardInterrupt"}
      [] content = "exits" -> {"SystemExit"}
      [] OTHER -> {"KeyboardInterrupt"}

\* except FileNotFoundError
IsFileNotFound(exc) == IsInstance(exc, "FileNotFoundError")
\* Mutant of IsException: the second clause written as except OSError.
IsOSError(exc) == IsInstance(exc, "OSError")

\* except Exception as e
IsException(exc) == IsInstance(exc, "Exception")

LoadInit ==
    /\ files \in [Paths -> Contents]
    /\ load = NotLoading
    /\ console = <<>>
    /\ graph = [e \in {Root} |->
                  [kind |-> "Estimator", check |-> "fitted",
                   named_steps |-> <<>>, transformers |-> <<>>,
                   has_transformers_ |-> FALSE, transformers_ |-> <<>>]]
    /\ stack = <<>>
    /\ out = <<>>
    /\ status = "idle"
    /\ result = "none yet"
    /\ args = NoArgs
    /\ prev = NoCall

\* A caller invokes load_model(filepath).
LoadCall ==
    /\ load.pc # "try"
    /\ \E filepath \in Paths : load' = [pc |-> "try", filepath |-> filepath]
    /\ console' = <<>>
    /\ UNCHANGED files
    /\ UNCHANGED auditVars

\* joblib.load returns; the object is returned after the success message.
LoadReturns ==
    /\ load.pc = "try"
    /\ files[load.filepath] \in Objects
    /\ console' = Append(console, <<"Model loaded from: ", load.filepath>>)
    /\ load' = [pc |-> "returned", filepath |-> load.filepath,
                result |-> files[load.filepath]]
    /\ UNCHANGED files
    /\ UNCHANGED auditVars

LoadFileNotFound ==
    /\ load.pc = "try"
    /\ \E exc \in JoblibRaises(files[load.filepath]) :
          /\ IsFileNotFound(exc)
          /\ console' = Append(console, <<"Error: File not found at '",
                                          load.filepath, "'">>)
          /\ load' = [pc |-> "returned", filepath |-> load.filepath,
                      result |-> "None"]
    /\ UNCHANGED files
    /\ UNCHANGED auditVars

LoadOtherException ==
    /\ load.pc = "try"
    /\ \E exc \in JoblibRaises(files[load.filepath]) :
          /\ ~IsFileNotFound(exc)
          /\ IsException(exc)
          /\ console' = Append(console, <<"Error when loading object: ", exc>>)
          /\ load' = [pc |-> "returned", filepath |-> load.filepath,
                      result |-> "None"]
    /\ UNCHANGED files
    /\ UNCHANGED auditVars

\* No except clause matches: the exception leaves load_model.
LoadPropagates ==
    /\ load.pc = "try"
    /\ \E exc \in JoblibRaises(files[load.filepath]) :
          /\ ~IsFileNotFound(exc)
          /\ ~IsException(exc)
          /\ load' = [pc |-> "raised", filepath |-> load.filepath,
                      exc |-> exc]
    /\ UNCHANGED <<files, console>>
    /\ UNCHANGED auditVars

LoadNext ==
    \/ LoadCall
    \/ LoadReturns
    \/ LoadFileNotFound
    \/ LoadOtherException
    \/ LoadPropagates

LoadSpec == LoadInit /\ [][LoadNext]_vars


\* ================================================================ claims
\* What the specification says a line looks like, spelled out on its own.
Indentation(depth) == [k \in 1 .. 2 * depth |-> " "]

ExpectedLine(depth, fitted, name) ==
    Indentation(depth)
      \o (IF fitted THEN <<"[", "U+2713", "]">> ELSE <<"[", "X", "]">>)
      \o <<" ">> \o name \o <<" ">>
      \o (IF fitted
          THEN <<"i", "s", " ", "f", "i", "t", "t", "e", "d", ".">>
          ELSE <<"I", "S", " ", "N", "O", "T", " ",
                 "F", "I", "T", "T", "E", "D", "!">>)

ExpectedStepName(step_name) == <<"S", "t", "e", "p", ":", " ">> \o step_name
ExpectedTransformerName(trans_name) ==
    <<"T", "r", "a", "n", "s", "f", "o", "r", "m", "e", "r", ":", " ">>
        \o trans_name

\* The number of space characters a printed line begins with.
RECURSIVE LeadingSpaces(_)
LeadingSpaces(text) ==
    IF text # <<>> /\ Head(text) = " " THEN 1 + LeadingSpaces(Tail(text)) ELSE 0

\* The report the specification prescribes for audit(component, name, depth):
\* the lines in order, and whether the audit completes (ok) or is cut short
\* by a fault of a fitted-check.
RECURSIVE Report(_, _, _), ReportNested(_, _, _)
Report(e, name, depth) ==
    IF graph[e].check = "OtherError"
    THEN [lines |-> <<>>, ok |-> FALSE]
    ELSE LET nested == ReportNested(e, 1, depth)
         IN [lines |-> <<ExpectedLine(depth, graph[e].check = "fitted", name)>>
                          \o nested.lines,
             ok |-> nested.ok]

ReportNested(e, k, depth) ==
    LET pipeline == graph[e].kind = "Pipeline"
        items == IF pipeline THEN graph[e].named_steps
                 ELSE IF graph[e].kind = "ColumnTransformer"
                         /\ graph[e].has_transformers_
                      THEN graph[e].transformers_
                      ELSE <<>>
    IN IF k > Len(items) THEN [lines |-> <<>>, ok |-> TRUE]
       ELSE IF ~pipeline /\ items[k][1] = Remainder
            THEN ReportNested(e, k + 1, depth)
            ELSE LET first == Report(items[k][2],
                                     IF pipeline
                                     THEN ExpectedStepName(items[k][1])
                                     ELSE ExpectedTransformerName(items[k][1]),
                                     depth + 1)
                     rest == ReportNested(e, k + 1, depth)
                 IN IF first.ok
                    THEN [lines |-> first.lines \o rest.lines, ok |-> rest.ok]
                    ELSE first

\* What the call of the top frame has printed so far.
Printout(frame) == SubSeq(out, frame.base + 1, Len(out))

\* The top frame has run its loops to the end and is about to return.
Returning(frame) ==
    /\ status = "running"
    /\ frame = Top
    /\ frame.pc = "children"
    /\ LoopDone

RECURSIVE StepReports(_, _, _)
StepReports(steps, k, depth) ==
    IF k > Len(steps) THEN <<>>
    ELSE Report(steps[k][2], ExpectedStepName(steps[k][1]), depth).lines
             \o StepReports(steps, k + 1, depth)

\* C1: a pipeline's call, when it returns, has printed the pipeline's own
\* status line (fitted or not fitted) and then, for each item of named_steps
\* in declaration order, the report of that step under the name
\* "Step: <stepName>" one level deeper, and nothing else.
C1_PipelineStepsInOrder ==
    \A k \in 1 .. Len(stack) :
        LET f == stack[k]
            e == f.estimator
        IN (graph[e].kind = "Pipeline" /\ Returning(f)) =>
              Printout(f) =
                  <<ExpectedLine(f.indent, graph[e].check = "fitted", f.name)>>
                     \o StepReports(graph[e].named_steps, 1, f.indent + 1)

\* The example of the specification: steps [("a", fitted leaf),
\* ("b", unfitted leaf)] give exactly three lines.
C1_Witness ==
    /\ status = "returned"
    /\ args.indent = 0
    /\ graph[Root].kind = "Pipeline"
    /\ graph[Root].check = "NotFittedError"
    /\ Len(graph[Root].named_steps) = 2
    /\ out = << <<"[", "X", "]", " ", "r", "o", "o", "t", " ",
                  "I", "S", " ", "N", "O", "T", " ",
                  "F", "I", "T", "T", "E", "D", "!">>,
                <<" ", " ", "[", "U+2713", "]", " ",
                  "S", "t", "e", "p", ":", " ", "a", " ",
                  "i", "s", " ", "f", "i", "t", "t", "e", "d", ".">>,
                <<" ", " ", "[", "X", "]", " ",
                  "S", "t", "e", "p", ":", " ", "b", " ",
                  "I", "S", " ", "N", "O", "T", " ",
                  "F", "I", "T", "T", "E", "D", "!">> >>

RECURSIVE TransformerReports(_, _, _)
TransformerReports(entries, k, depth) ==
    IF k > Len(entries) THEN <<>>
    ELSE (IF entries[k][1] = Remainder THEN <<>>
          ELSE Report(entries[k][2], ExpectedTransformerName(entries[k][1]),
                      depth).lines)
             \o TransformerReports(entries, k + 1, depth)

\* C2: a column-transformer that has transformers_, when its call returns,
\* has printed its own status line and then, in resolution order, the report
\* of every entry not named "remainder" under the name
\* "Transformer: <transformerName>" one level deeper; an entry named
\* "remainder" contributes no line, whatever its object is.
C2_RemainderSkipped ==
    \A k \in 1 .. Len(stack) :
        LET f == stack[k]
            e == f.estimator
        IN (/\ graph[e].kind = "ColumnTransformer"
            /\ graph[e].has_transformers_
            /\ Returning(f)) =>
              Printout(f) =
                  <<ExpectedLine(f.indent, graph[e].check = "fitted", f.name)>>
                     \o TransformerReports(graph[e].transformers_, 1,
                                           f.indent + 1)

\* A fitted column-transformer with entries [("a", T1, cols),
\* ("remainder", an object whose fitted-check faults, cols)] has returned
\* with T1's line and no line for the remainder.
C2_Witness ==
    /\ status = "returned"
    /\ graph[Root].kind = "ColumnTransformer"
    /\ graph[Root].has_transformers_
    /\ Len(graph[Root].transformers_) = 2
    /\ graph[Root].transformers_[1][1] = NameA
    /\ graph[Root].transformers_[2][1] = Remainder
    /\ graph[graph[Root].transformers_[2][2]].check = "OtherError"
    /\ Len(out) = 2
    /\ out[2] = ExpectedLine(args.indent + 1,
                             graph[graph[Root].transformers_[1][2]].check
                                 = "fitted",
                             ExpectedTransformerName(NameA))

\* C3: a column-transformer without transformers_ prints exactly one line,
\* its own status line, and audit_deep is never called on one of its
\* declared transformers.
C3_UnfittedColumnTransformer ==
    \A k \in 1 .. Len(stack) :
        LET f == stack[k]
            e == f.estimator
        IN (graph[e].kind = "ColumnTransformer" /\ ~graph[e].has_transformers_)
             => /\ k = Len(stack)
                /\ status = "running" /\ f.pc = "children" =>
                      /\ LoopDone
                      /\ Printout(f) =
                           <<ExpectedLine(f.indent, graph[e].check = "fitted",
                                          f.name)>>

C3_Witness ==
    /\ status = "returned"
    /\ result = "None"
    /\ graph[Root].kind = "ColumnTransformer"
    /\ ~graph[Root].has_transformers_
    /\ Len(graph[Root].transformers) = 2
    /\ graph[Root].check = "NotFittedError"
    /\ Len(out) = 1

\* C4: a call on a leaf (neither pipeline nor column-transformer) whose
\* fitted-check succeeds or signals not-fitted prints exactly one line:
\* two spaces per indent level, then "[U+2713] <name> is fitted." when the
\* check succeeds and "[X] <name> IS NOT FITTED!" when it signals not-fitted.
C4_LeafOneLine ==
    \A k \in 1 .. Len(stack) :
        LET f == stack[k]
            e == f.estimator
        IN (graph[e].kind = "Estimator" /\ status = "running") =>
              /\ k = Len(stack)
              /\ f.pc = "check" => Printout(f) = <<>>
              /\ f.pc = "children" =>
                    /\ LoopDone
                    /\ graph[e].check \in {"fitted", "NotFittedError"}
                    /\ Printout(f) =
                         <<ExpectedLine(f.indent, graph[e].check = "fitted",
                                        f.name)>>

\* A nested leaf that is not fitted has printed its line and is about to
\* return.
C4_Witness ==
    /\ Len(stack) = 2
    /\ Returning(Top)
    /\ graph[Top.estimator].kind = "Estimator"
    /\ graph[Top.estimator].check = "NotFittedError"
    /\ Top.indent = 2
    /\ out[Len(out)] = <<" ", " ", " ", " ", "[", "X", "]", " ",
                         "T", "r", "a", "n", "s", "f", "o", "r", "m", "e", "r",
                         ":", " ", "b", " ", "I", "S", " ", "N", "O", "T", " ",
                         "F", "I", "T", "T", "E", "D", "!">>

\* C5: the line a nested call prints begins with exactly two spaces more
\* than the line its parent call printed, at every nesting level; the root's
\* line begins with two spaces per level of the caller's indent.
C5_DepthMonotonic ==
    \A k \in 1 .. Len(stack) :
        stack[k].line # 0 =>
            /\ k = 1 => LeadingSpaces(out[stack[k].line]) = 2 * args.indent
            /\ k > 1 =>
                 /\ stack[k - 1].line # 0
                 /\ LeadingSpaces(out[stack[k].line])
                      = LeadingSpaces(out[stack[k - 1].line]) + 2

\* Three nested calls, pipeline in column-transformer, have each printed.
C5_Witness ==
    /\ Len(stack) = 3
    /\ stack[3].line = 3
    /\ graph[stack[1].estimator].kind = "ColumnTransformer"
    /\ graph[stack[2].estimator].kind = "Pipeline"
    /\ args.indent = 1
    /\ LeadingSpaces(out[3]) = 6

\* C6: when the fitted-check of a visited component fails with a fault other
\* than not-fitted, no line is printed for that component, nothing is printed
\* after it, and the fault unwinds every enclosing call and reaches the
\* caller; a call returns normally only when no visited check faulted.
C6_FaultPropagates ==
    LET r == Report(Root, args.name, args.indent)
    IN /\ status \in {"raising", "raised"} => ~r.ok /\ out = r.lines
       /\ status = "raising" => stack # <<>>
       /\ status = "raised" => stack = <<>> /\ result = "exception"
       /\ status = "returned" => r.ok /\ result = "None"

\* The fault of a grandchild has passed through three calls and reached the
\* caller; the lines of the two enclosing components were printed before it.
C6_Witness ==
    /\ status = "raised"
    /\ DOMAIN graph = 1 .. 3
    /\ graph[1].kind = "Pipeline" /\ graph[1].check = "fitted"
    /\ graph[2].kind = "ColumnTransformer" /\ graph[2].check = "fitted"
    /\ Len(graph[2].transformers_) = 1
    /\ graph[3].check = "OtherError"
    /\ Len(out) = 2

\* C7: two successive calls with the same arguments on the same graph give
\* the same lines and end the same way.
C7_Idempotent ==
    (/\ status \in {"returned", "raised"}
     /\ prev.done
     /\ prev.args = args) =>
        /\ prev.out = out
        /\ prev.status = status
        /\ prev.result = result

C7_Witness ==
    /\ status = "returned"
    /\ prev.done
    /\ prev.args = args
    /\ prev.status = "returned"
    /\ Len(out) = 3
    /\ \E e \in DOMAIN graph : graph[e].check = "NotFittedError"

\* C9: no step of audit_deep changes the component graph; while a call runs
\* or unwinds, the only effect is that at most one line is appended to the
\* output; and a call that returns gives None.
C9_ReadOnly ==
    [][/\ graph' = graph
       /\ status \in {"running", "raising"} =>
             \/ out' = out
             \/ /\ Len(out') = Len(out) + 1
                /\ SubSeq(out', 1, Len(out)) = out
       /\ status' = "returned" => result' = "None"]_vars

\* An audit has ended in a propagated fault after printing, and the graph
\* still holds the not-fitted component it reported.
C9_Witness ==
    /\ status = "raised"
    /\ Len(out) = 2
    /\ graph[Root].check = "NotFittedError"
    /\ \E e \in DOMAIN graph : graph[e].check = "OtherError"

\* The number of calls of audit_deep the specification prescribes for a
\* component: one for itself and one per occurrence of a nested component
\* it recurses into.
RECURSIVE Occurrences(_), NestedOccurrences(_, _)
Occurrences(e) == 1 + NestedOccurrences(e, 1)

NestedOccurrences(e, k) ==
    LET pipeline == graph[e].kind = "Pipeline"
        items == IF pipeline THEN graph[e].named_steps
                 ELSE IF graph[e].kind = "ColumnTransformer"
                         /\ graph[e].has_transformers_
                      THEN graph[e].transformers_
                      ELSE <<>>
    IN IF k > Len(items) THEN 0
       ELSE (IF ~pipeline /\ items[k][1] = Remainder THEN 0
             ELSE Occurrences(items[k][2]))
               + NestedOccurrences(e, k + 1)

\* C10: on a finite acyclic graph every started call ends (it returns, or a
\* fault reaches the caller), and a call that returns has printed exactly
\* one line per visited component occurrence.
C10_Terminates ==
    /\ (status = "running") ~> (status \in {"returned", "raised"})
    /\ [](status = "returned" => Len(out) = Occurrences(Root))

\* A call has returned on a graph whose third estimator is an item both of
\* the root and of the root's first item: it was reported once per path.
C10_Witness ==
    /\ status = "returned"
    /\ DOMAIN graph = 1 .. 3
    /\ graph[1].kind = "ColumnTransformer"
    /\ Len(graph[1].transformers_) = 2
    /\ graph[1].transformers_[2][2] = 3
    /\ graph[2].kind = "Pipeline"
    /\ Len(graph[2].named_steps) = 1
    /\ graph[2].named_steps[1][2] = 3
    /\ Len(out) = 4

\* C8 as stated: load_model never raises to its caller.
C8_NeverRaises == load.pc # "raised"

\* C8 as amended: load_model returns the loaded object when deserialisation
\* succeeds; when joblib.load raises FileNotFoundError or any other exception
\* derived from Exception it prints an error message and returns None; only
\* an exception outside Exception (KeyboardInterrupt, SystemExit) reaches the
\* caller.
C8_ExceptionsBecomeNone ==
    /\ load.pc = "raised" =>
          /\ load.exc \in {"KeyboardInterrupt", "SystemExit"}
          /\ files[load.filepath] # "absent"
    /\ load.pc = "returned" =>
          \/ /\ files[load.filepath] \in Objects
             /\ load.result = files[load.filepath]
             /\ console = << <<"Model loaded from: ", load.filepath>> >>
          \/ /\ files[load.filepath] = "absent"
             /\ load.result = "None"
             /\ console = << <<"Error: File not found at '",
                              load.filepath, "'">> >>
          \/ /\ files[load.filepath] = "corrupt"
             /\ load.result = "None"
             /\ console = << <<"Error when loading object: ",
                              "UnpicklingError">> >>

\* Loading a path that holds bytes which do not deserialise has printed the
\* error and returned None.
C8_Witness ==
    /\ load.pc = "returned"
    /\ files[load.filepath] = "corrupt"
    /\ load.result = "None"
    /\ Len(console) = 1

====
